---- MODULE Spec2Model ----
(***************************************************************************)
(* felixwatts/holdem, src/cards.go: hands of playing cards, the scorer     *)
(* Score with its nine category scorers, Describe, and the equity          *)
(* estimator Compare with its recursive helper _compare.                   *)
(*                                                                         *)
(* A Hand (a uint64 bit set over the 52 cards) is the set of its cards.    *)
(* The recursion of _compare is run as a machine with an explicit call     *)
(* stack: one frame per active call, holding the call's arguments and the  *)
(* locals c, ch and nc of its loop.  A float64 is held exactly, as a       *)
(* fixed-point number in limbs, and every float64 operation rounds its     *)
(* exact result to 53 significant bits, nearest-even, as IEEE 754 does.    *)
(***************************************************************************)
EXTENDS Integers, Sequences, FiniteSets, TLC

(* ---- constants of the source ---- *)
NUM_CARDS == 52
NUM_FACES == 13
NUM_SUITS == 4
MantissaBits == 53
HoldemCards == 7

(* ---- bounds of the model ---- *)
LimbBits == 15
NumLimbs == 6
NumHands == 3
MaxDepth == 8
PoolSize == 10
QPoolSize == 5

Cards == 0 .. (NUM_CARDS - 1)
Faces == 0 .. (NUM_FACES - 1)
Suits == 0 .. (NUM_SUITS - 1)

(* ---- cards and hands ---- *)
ToCard(f, s) == s * NUM_FACES + f
CardSuit(c) == c \div NUM_FACES
CardFace(c) == c % NUM_FACES
HasCard(h, c) == c \in h
AddCard(h, c) == h \cup {c}
NumCards(h) == Cardinality(h)

FaceCounts(h) ==
    [f \in Faces |-> Cardinality({s \in Suits : HasCard(h, ToCard(f, s))})]

RECURSIVE sfScan(_, _, _, _)
sfScan(h, s, f, runLength) ==
    IF s >= NUM_SUITS THEN 0
    ELSE IF f >= NUM_FACES THEN sfScan(h, s + 1, 0, 0)
    ELSE IF HasCard(h, ToCard(f, s))
         THEN IF runLength + 1 = 5 THEN f + 1
              ELSE sfScan(h, s, f + 1, runLength + 1)
         ELSE sfScan(h, s, f + 1, 0)

straightFlushScore(h) == sfScan(h, 0, 0, 0)

RECURSIVE flScan(_, _, _, _)
flScan(h, c, SuitCount, SuitMax) ==
    IF c >= NUM_CARDS THEN 0
    ELSE IF HasCard(h, c)
         THEN LET s == CardSuit(c)
                  f == CardFace(c)
                  cnt == SuitCount[s] + 1
                  mx == IF SuitMax[s] < f + 1 THEN f + 1 ELSE SuitMax[s]
              IN  IF cnt = 5 THEN mx
                  ELSE flScan(h, c + 1, [SuitCount EXCEPT ![s] = cnt],
                              [SuitMax EXCEPT ![s] = mx])
         ELSE flScan(h, c + 1, SuitCount, SuitMax)

flushScore(h) == flScan(h, 0, [s \in Suits |-> 0], [s \in Suits |-> 0])

RECURSIVE stScan(_, _, _, _)
stScan(h, f, runLength, max) ==
    IF f < 0 THEN 0
    ELSE IF \E s \in Suits : HasCard(h, ToCard(f, s))
         THEN LET mx == IF runLength = 0 THEN f + 1 ELSE max
              IN  IF runLength + 1 = 5 THEN mx
                  ELSE stScan(h, f - 1, runLength + 1, mx)
         ELSE stScan(h, f - 1, 0, 0)

straightScore(h) == stScan(h, NUM_FACES - 1, 0, 0)

RECURSIVE fkScan(_, _)
fkScan(fc, f) ==
    IF f < 0 THEN 0
    ELSE IF fc[f] = 4 THEN f + 1 ELSE fkScan(fc, f - 1)

fourKindAboveTwo(fc) ==
    IF \E f \in 1 .. (NUM_FACES - 1) : fc[f] = 4
    THEN (CHOOSE f \in 1 .. (NUM_FACES - 1) :
              fc[f] = 4 /\ \A g \in 1 .. (NUM_FACES - 1) : fc[g] = 4 => g <= f) + 1
    ELSE 0

fourKindScore(fc) == fkScan(fc, NUM_FACES - 1)

RECURSIVE fhScan(_, _, _, _)
fhScan(fc, f, max, hasTwo) ==
    IF f >= NUM_FACES THEN (IF hasTwo THEN max ELSE 0)
    ELSE fhScan(fc, f + 1,
                IF fc[f] = 3 /\ f > max THEN f + 1 ELSE max,
                hasTwo \/ fc[f] = 2)

fullHouseScore(fc) == fhScan(fc, 0, 0, FALSE)

RECURSIVE tkScan(_, _, _)
tkScan(fc, f, max) ==
    IF f >= NUM_FACES THEN max
    ELSE tkScan(fc, f + 1, IF fc[f] = 3 /\ f > max THEN f + 1 ELSE max)

threeKindScore(fc) == tkScan(fc, 0, 0)

RECURSIVE tpScan(_, _, _, _)
tpScan(fc, f, max, pairCount) ==
    IF f >= NUM_FACES THEN (IF pairCount >= 2 THEN max ELSE 0)
    ELSE IF fc[f] = 2
         THEN tpScan(fc, f + 1, IF f + 1 > max THEN f + 1 ELSE max, pairCount + 1)
         ELSE tpScan(fc, f + 1, max, pairCount)

twoPairScore(fc) == tpScan(fc, 0, 0, 0)

RECURSIVE prScan(_, _, _)
prScan(fc, f, max) ==
    IF f >= NUM_FACES THEN max
    ELSE prScan(fc, f + 1, IF fc[f] = 2 /\ f + 1 > max THEN f + 1 ELSE max)

pairScore(fc) == prScan(fc, 0, 0)

RECURSIVE hcScan(_, _)
hcScan(fc, f) ==
    IF f < 0 THEN 0
    ELSE IF fc[f] = 1 THEN f + 1 ELSE hcScan(fc, f - 1)

highCardScore(fc) == hcScan(fc, NUM_FACES - 1)

Score(h) ==
    LET sf == straightFlushScore(h) IN
    IF sf # 0 THEN sf + 8 * 13
    ELSE LET fc == FaceCounts(h)
             fk == fourKindScore(fc) IN
    IF fk # 0 THEN fk + 7 * 13
    ELSE LET fh == fullHouseScore(fc) IN
    IF fh # 0 THEN fh + 6 * 13
    ELSE LET fl == flushScore(h) IN
    IF fl # 0 THEN fl + 5 * 13
    ELSE LET st == straightScore(h) IN
    IF st # 0 THEN st + 4 * 13
    ELSE LET tk == threeKindScore(fc) IN
    IF tk # 0 THEN tk + 3 * 13
    ELSE LET tp == twoPairScore(fc) IN
    IF tp # 0 THEN tp + 2 * 13
    ELSE LET pr == pairScore(fc) IN
    IF pr # 0 THEN pr + 13
    ELSE highCardScore(fc)

Describe(h) ==
    LET fc == FaceCounts(h) IN
    IF straightFlushScore(h) = 13 THEN "royal flush"
    ELSE IF straightFlushScore(h) # 0 THEN "straight flush"
    ELSE IF fullHouseScore(fc) # 0 THEN "full house"
    ELSE IF flushScore(h) # 0 THEN "flush"
    ELSE IF threeKindScore(fc) # 0 THEN "three of a kind"
    ELSE IF twoPairScore(fc) # 0 THEN "two pairs"
    ELSE IF pairScore(fc) # 0 THEN "pair"
    ELSE "high Card"

(* ---- float64 ---- *)
(* A value is the limb vector x with x[1] its integer part and x[2..] its   *)
(* fraction in base 2^LimbBits, most significant limb first.               *)
Radix == 2 ^ LimbBits
Limbs == 1 .. NumLimbs

FZero == [i \in Limbs |-> 0]
FInt(k) == [i \in Limbs |-> IF i = 1 THEN k ELSE 0]
FOne == FInt(1)
FHalf == [i \in Limbs |-> IF i = 2 THEN Radix \div 2 ELSE 0]

RECURSIVE addFrom(_, _, _, _, _)
addFrom(a, b, i, carry, acc) ==
    IF i = 0 THEN acc
    ELSE LET t == a[i] + b[i] + carry
         IN  IF t >= Radix THEN addFrom(a, b, i - 1, 1, <<t - Radix>> \o acc)
             ELSE addFrom(a, b, i - 1, 0, <<t>> \o acc)

AddLimbs(x, y) == addFrom(x, y, NumLimbs, 0, <<>>)

Round53(v, sticky) ==
    IF \A i \in Limbs : v[i] = 0 THEN v
    ELSE LET j == CHOOSE i \in Limbs : v[i] # 0 /\ \A k \in 1 .. (i - 1) : v[k] = 0
             len == CHOOSE k \in 1 .. LimbBits : 2 ^ (k - 1) <= v[j] /\ v[j] < 2 ^ k
             drop == (len - 1) + (NumLimbs - j) * LimbBits - (MantissaBits - 1)
         IN  IF drop <= 0 THEN v
             ELSE LET m == ((drop - 1) % LimbBits) + 1
                      idx == NumLimbs - ((drop - 1) \div LimbBits)
                      guard == (v[idx] \div (2 ^ (m - 1))) % 2
                      st == sticky \/ (v[idx] % (2 ^ (m - 1))) # 0
                                   \/ \E i \in (idx + 1) .. NumLimbs : v[i] # 0
                      lsb == IF m < LimbBits THEN (v[idx] \div (2 ^ m)) % 2
                             ELSE v[idx - 1] % 2
                      trunc == [i \in Limbs |->
                                  IF i < idx THEN v[i]
                                  ELSE IF i = idx THEN (v[idx] \div (2 ^ m)) * (2 ^ m)
                                  ELSE 0]
                      ulp == [i \in Limbs |-> IF i = idx THEN 2 ^ m ELSE 0]
                  IN  IF guard = 1 /\ (st \/ lsb = 1)
                      THEN AddLimbs(trunc, ulp)
                      ELSE trunc

FAdd(p, q) ==
    LET sum == AddLimbs(p, q)
    IN  Round53(sum, FALSE)

RECURSIVE divFrom(_, _, _, _, _)
divFrom(d, n, i, r, acc) ==
    IF i > NumLimbs THEN <<acc, r>>
    ELSE LET t == r * Radix + d[i]
         IN  divFrom(d, n, i + 1, t % n, Append(acc, t \div n))

FDiv(num, den) ==
    LET qr == divFrom(num, den, 1, 0, <<>>)
    IN  Round53(qr[1], qr[2] # 0)

FLessEq(x, y) ==
    x = y \/ \E i \in Limbs : x[i] < y[i] /\ \A k \in 1 .. (i - 1) : x[k] = y[k]

FWithin(x, y, eps) == FLessEq(x, AddLimbs(y, eps)) /\ FLessEq(y, AddLimbs(x, eps))

(* ---- inputs ---- *)
Min(a, b) == IF a < b THEN a ELSE b
Max(a, b) == IF a < b THEN b ELSE a

CreateHand(cards) == {cards[i] : i \in 1 .. Len(cards)}

RoyalFlush == CreateHand(<<ToCard(8, 0), ToCard(9, 0), ToCard(10, 0), ToCard(11, 0), ToCard(12, 0)>>)
KingsDraw == CreateHand(<<ToCard(11, 2), ToCard(11, 3), ToCard(10, 2), ToCard(9, 2), ToCard(8, 2), ToCard(2, 1)>>)
PairOfAces == CreateHand(<<ToCard(12, 1), ToCard(12, 2), ToCard(11, 1), ToCard(5, 3), ToCard(0, 3)>>)
NinesFull == CreateHand(<<ToCard(7, 1), ToCard(7, 3), ToCard(7, 0), ToCard(3, 1), ToCard(3, 0), ToCard(0, 2), ToCard(1, 2)>>)

HandSeq == <<RoyalFlush, KingsDraw, PairOfAces, NinesFull>>
Hands == {HandSeq[i] : i \in 1 .. Min(NumHands, Len(HandSeq))}

PoolSeq == <<ToCard(0, 0), ToCard(0, 1), ToCard(0, 2), ToCard(0, 3), ToCard(1, 0),
             ToCard(1, 1), ToCard(1, 2), ToCard(2, 0), ToCard(3, 0), ToCard(4, 0),
             ToCard(5, 0)>>
Pool == {PoolSeq[i] : i \in 1 .. Min(PoolSize, Len(PoolSeq))}
QPool == {PoolSeq[i] : i \in 1 .. Min(QPoolSize, Len(PoolSeq))}

(* ---- state ---- *)
VARIABLES in1, in2, lookahead, pc, stack, res1, res2, leafSum, leafCount

vars == <<in1, in2, lookahead, pc, stack, res1, res2, leafSum, leafCount>>

Uint8(x) == x % 256

Frame(h1, l1, h2, l2, firstCard, la, card) ==
    [h1 |-> h1, l1 |-> l1, h2 |-> h2, l2 |-> l2, firstCard |-> firstCard,
     lookahead |-> la, c |-> firstCard, ch |-> FZero, nc |-> 0, card |-> card]

Top == stack[Len(stack)]
Running == pc \in {"first", "second"} /\ stack # <<>>

Candidates(fr) ==
    {c \in fr.c .. (NUM_CARDS - 1) : ~HasCard(fr.h1, c) /\ ~HasCard(fr.h2, c)}

NextCandidate(fr) == CHOOSE c \in Candidates(fr) : \A d \in Candidates(fr) : c <= d

RestartScan(c) == 0

NextFirstCard(c) == c + 1

LeafValueTieWins(s1, s2) == IF s1 >= s2 THEN FOne ELSE FZero

LeafValue(s1, s2) == IF s1 > s2 THEN FOne ELSE IF s1 < s2 THEN FZero ELSE FHalf

LeafPoints(s1, s2) == IF s1 > s2 THEN 2 ELSE IF s1 < s2 THEN 0 ELSE 1

(* ---- Compare: the entry point ---- *)
Compare(x1, x2, la) ==
    LET l1 == NumCards(x1)
        l2 == NumCards(x2)
        s == IF l1 > l2 THEN Uint8(la - l2)
             ELSE IF l1 < l2 THEN Uint8(la - l1)
             ELSE Uint8(la - l1)
    IN  stack' = <<Frame(x1, l1, x2, l2, 0, s, -1)>>

CompareFirst ==
    /\ pc = "input"
    /\ Compare(in1, in2, lookahead)
    /\ pc' = "first"
    /\ UNCHANGED <<in1, in2, lookahead, res1, res2, leafSum, leafCount>>

CompareSecond ==
    /\ pc = "swap"
    /\ Compare(in2, in1, lookahead)
    /\ pc' = "second"
    /\ UNCHANGED <<in1, in2, lookahead, res1, res2, leafSum, leafCount>>

(* ---- _compare: one loop iteration that deals a card and recurses ---- *)
Call(child) ==
    /\ Len(stack) <= MaxDepth
    /\ stack' = Append([stack EXCEPT ![Len(stack)].c = child.card], child)
    /\ UNCHANGED <<in1, in2, lookahead, pc, res1, res2, leafSum, leafCount>>

DealH1 ==
    /\ Running
    /\ Top.lookahead # 0
    /\ Top.l1 < Top.l2
    /\ Candidates(Top) # {}
    /\ LET fr == Top
           c == NextCandidate(fr)
       IN  Call(Frame(AddCard(fr.h1, c), fr.l1 + 1, fr.h2, fr.l2,
                      NextFirstCard(c), fr.lookahead - 1, c))

DealH2 ==
    /\ Running
    /\ Top.lookahead # 0
    /\ ~(Top.l1 < Top.l2)
    /\ Top.l2 < Top.l1
    /\ Candidates(Top) # {}
    /\ LET fr == Top
           c == NextCandidate(fr)
       IN  Call(Frame(fr.h1, fr.l1, AddCard(fr.h2, c), fr.l2 + 1,
                      NextFirstCard(c), fr.lookahead - 1, c))

DealBoth ==
    /\ Running
    /\ Top.lookahead # 0
    /\ ~(Top.l1 < Top.l2)
    /\ ~(Top.l2 < Top.l1)
    /\ Candidates(Top) # {}
    /\ LET fr == Top
           c == NextCandidate(fr)
       IN  Call(Frame(AddCard(fr.h1, c), fr.l1 + 1, AddCard(fr.h2, c), fr.l2 + 1,
                      NextFirstCard(c), fr.lookahead - 1, c))

(* ---- _compare: return of a call to its caller ---- *)
Return(v) ==
    IF Len(stack) = 1
    THEN /\ stack' = <<>>
         /\ IF pc = "first"
            THEN res1' = v /\ pc' = "swap" /\ UNCHANGED res2
            ELSE res2' = v /\ pc' = "done" /\ UNCHANGED res1
    ELSE LET caller == stack[Len(stack) - 1]
         IN  /\ stack' = Append(SubSeq(stack, 1, Len(stack) - 2),
                                [caller EXCEPT !.ch = FAdd(@, v),
                                               !.nc = @ + 1,
                                               !.c = @ + 1])
             /\ UNCHANGED <<pc, res1, res2>>

Base ==
    /\ Running
    /\ Top.lookahead = 0
    /\ LET s1 == Score(Top.h1)
           s2 == Score(Top.h2)
       IN  /\ Return(LeafValue(s1, s2))
           /\ IF pc = "first"
              THEN leafSum' = leafSum + LeafPoints(s1, s2) /\ leafCount' = leafCount + 1
              ELSE UNCHANGED <<leafSum, leafCount>>
    /\ UNCHANGED <<in1, in2, lookahead>>

Fallback ==
    /\ Running
    /\ Top.lookahead # 0
    /\ Candidates(Top) = {}
    /\ Top.nc = 0
    /\ Return(FHalf)
    /\ UNCHANGED <<in1, in2, lookahead, leafSum, leafCount>>

Average ==
    /\ Running
    /\ Top.lookahead # 0
    /\ Candidates(Top) = {}
    /\ Top.nc # 0
    /\ Return(FDiv(Top.ch, Top.nc))
    /\ UNCHANGED <<in1, in2, lookahead, leafSum, leafCount>>

Init ==
    /\ in1 \in Hands
    /\ in2 \in Hands
    /\ lookahead \in 0 .. HoldemCards
    /\ pc = "input"
    /\ stack = <<>>
    /\ res1 = FZero
    /\ res2 = FZero
    /\ leafSum = 0
    /\ leafCount = 0

Next ==
    \/ CompareFirst
    \/ CompareSecond
    \/ DealH1
    \/ DealH2
    \/ DealBoth
    \/ Base
    \/ Fallback
    \/ Average

Spec == Init /\ [][Next]_vars

(* ---- building hands card by card, for the scorer ---- *)
AddCard1(c) ==
    /\ pc = "create"
    /\ ~HasCard(in1, c)
    /\ in1' = AddCard(in1, c)
    /\ UNCHANGED <<in2, lookahead, pc, stack, res1, res2, leafSum, leafCount>>

AddCard2(c) ==
    /\ pc = "create"
    /\ ~HasCard(in2, c)
    /\ in2' = AddCard(in2, c)
    /\ UNCHANGED <<in1, lookahead, pc, stack, res1, res2, leafSum, leafCount>>

InitScore ==
    /\ in1 = {}
    /\ in2 = {}
    /\ lookahead = 0
    /\ pc = "create"
    /\ stack = <<>>
    /\ res1 = FZero
    /\ res2 = FZero
    /\ leafSum = 0
    /\ leafCount = 0

NextScore ==
    \/ \E c \in QPool : AddCard1(c)
    \/ \E c \in Pool : AddCard2(c)

SpecScore == InitScore /\ [][NextScore]_vars

(* ---- vocabulary of the properties ---- *)
ValidInput == lookahead >= Max(NumCards(in1), NumCards(in2))

Draws == lookahead - Min(NumCards(in1), NumCards(in2))

EnoughCards == Cardinality(Cards \ (in1 \cup in2)) >= Draws

FirstDone == pc \in {"swap", "second", "done"}

AtLeaf == Running /\ Top.lookahead = 0

AtFallback == Running /\ Top.lookahead # 0 /\ Candidates(Top) = {} /\ Top.nc = 0

DealtCards == {stack[i].card : i \in 2 .. Len(stack)}

Tolerance == [i \in Limbs |-> IF i = 3 THEN 1 ELSE 0]

FlatAverage == FDiv(FInt(leafSum), 2 * leafCount)

TierOf(sc) == IF sc = 0 THEN 0 ELSE (sc - 1) \div 13

TierLabels ==
    <<{"high Card"}, {"pair"}, {"two pairs"}, {"three of a kind"}, {"straight"},
      {"flush"}, {"full house"}, {"four of a kind"}, {"straight flush", "royal flush"}>>

IsFourKind(h) == \E f \in Faces : FaceCounts(h)[f] = 4

IsFullHouse(h) ==
    /\ \E f \in Faces : FaceCounts(h)[f] = 3
    /\ \E f \in Faces : FaceCounts(h)[f] = 2

FiveCardSubsets(h) == {g \in SUBSET h : Cardinality(g) = 5}

BestOfFive(h) ==
    CHOOSE m \in {Score(g) : g \in FiveCardSubsets(h)} :
        \A g \in FiveCardSubsets(h) : Score(g) <= m

HighestTriple(fc) ==
    CHOOSE f \in Faces : fc[f] = 3 /\ \A g \in Faces : fc[g] = 3 => g <= f

(* C1: for a valid lookahead with enough unused cards, the value Compare      *)
(* returns is the flat average of the showdown outcomes (1 win, 0.5 tie,      *)
(* 0 loss) over all completions of the hands.  Stated for hands of equal      *)
(* size, where the completions are exactly the leaves of the recursion, and   *)
(* up to a tolerance of one unit of the third limb for float64 rounding.      *)
C1_CompareIsFlatAverage ==
    (FirstDone /\ ValidInput /\ EnoughCards /\ NumCards(in1) = NumCards(in2))
        => FWithin(res1, FlatAverage, Tolerance)

C3_DescribeMatchesTier ==
    /\ Score(in2) \in 0 .. 117
    /\ Describe(in2) \in TierLabels[TierOf(Score(in2)) + 1]

(* C4, as amended: a four-of-a-kind hand q outscores every full-house hand f  *)
(* of at most seven cards.                                                    *)
C4_QuadBeatsFullHouseOfSeven ==
    (IsFourKind(in1) /\ IsFullHouse(in2) /\ NumCards(in2) <= HoldemCards)
        => Score(in1) > Score(in2)

C4_QuadAndFullHouseReached ==
    /\ IsFourKind(in1)
    /\ IsFullHouse(in2)
    /\ NumCards(in2) = HoldemCards
    /\ Score(in1) > Score(in2)

(* C4, as stated: a four-of-a-kind hand q outscores every full-house hand f.  *)
C4_QuadBeatsFullHouse ==
    (IsFourKind(in1) /\ IsFullHouse(in2)) => Score(in1) > Score(in2)

(* C5: a hand of six or seven cards scores as the best five-card hand that    *)
(* can be made from it.                                                       *)
C5_ScoreIsBestOfFive ==
    NumCards(in2) \in {6, 7} => Score(in2) = BestOfFive(in2)

(* C6: Compare called with lookahead below the larger hand size ends in an    *)
(* invalid-argument outcome: _compare is never entered and no probability is  *)
(* returned.                                                                  *)
C6_ShortLookaheadRejected ==
    lookahead < Max(NumCards(in1), NumCards(in2)) => pc \in {"input", "invalid"}

(* C7: the full-house scorer returns the highest face of tally 3, plus one,   *)
(* when some face has tally 2 and some face has tally 3, and 0 otherwise.     *)
C7_FullHouseScorer ==
    LET fc == FaceCounts(in2)
    IN  fullHouseScore(fc) =
            IF (\E f \in Faces : fc[f] = 2) /\ (\E f \in Faces : fc[f] = 3)
            THEN HighestTriple(fc) + 1
            ELSE 0

(* C8: every card dealt on a recursion path is absent from both hands of the  *)
(* calling frame and larger than every card dealt earlier on the path, and at *)
(* a leaf the dealt cards are exactly the cards the completed hands gained,   *)
(* so a leaf's hands determine its path and no two leaves compare the same    *)
(* completed hands.                                                           *)
C8_CombinationsOnce ==
    /\ \A i \in 2 .. Len(stack) :
          /\ ~HasCard(stack[i - 1].h1, stack[i].card)
          /\ ~HasCard(stack[i - 1].h2, stack[i].card)
          /\ \A j \in 2 .. (i - 1) : stack[j].card < stack[i].card
    /\ AtLeaf =>
          /\ DealtCards = (Top.h1 \cup Top.h2) \ (stack[1].h1 \cup stack[1].h2)
          /\ Cardinality(DealtCards) = Len(stack) - 1

C8_TwoCardLeafReached ==
    /\ AtLeaf
    /\ Len(stack) = 3
    /\ stack[2].card > 0
    /\ stack[3].card > stack[2].card + 1

(* C9: for a valid lookahead with enough unused cards, no call of _compare    *)
(* that still has draws to make finds no candidate card, and every leaf holds *)
(* exactly lookahead cards in both hands.                                     *)
C9_NeverFallback ==
    (ValidInput /\ EnoughCards) =>
        /\ ~AtFallback
        /\ AtLeaf => (Top.l1 = lookahead /\ Top.l2 = lookahead)

(* C10: the nesting depth of the _compare recursion never exceeds lookahead,  *)
(* for any hands and any lookahead.                                           *)
C10_DepthWithinLookahead == Len(stack) - 1 <= lookahead
====
